---- MODULE Spec2Model ----
(***************************************************************************)
(* Model of the statistics engine of streamlit-metabolomics-statistics:    *)
(*   src/pages/1_Data_Preparation.py  Submit / Redo of the cleaned tables  *)
(*   src/src/anova.py                 anova, tukey, Bonferroni correction  *)
(*   src/src/ttest.py                 gen_ttest_data                       *)
(*                                                                         *)
(* A p-value is an integer number of 1/Denom units, so 0.05 is Alpha.      *)
(* A DataFrame is a record [columns, rows]: columns is the ordered list    *)
(* of column names, rows the ordered list of rows; a row holds the cells   *)
(* the statistics code reads or writes (cells that are only carried        *)
(* through, such as F, diff, T or the group means, appear in columns       *)
(* only).                                                                  *)
(* The results of the pingouin calls (pg.anova, pg.pairwise_tukey,         *)
(* pg.ttest) are inputs of the model: a raw p-value, NaN, or an exception. *)
(***************************************************************************)
EXTENDS Integers, Sequences, FiniteSets, TLC

\* ---------------------------------------------------------------- bounds
MaxFeatures == 2      \* feature columns of the cleaned data table
NumSamples == 4       \* sample rows of the cleaned tables
NumLevels == 3        \* levels of the metadata attribute
NumUploads == 2       \* distinct cleaned datasets a session submits
MaxCalls == 2         \* statistics calls followed in one session

\* ------------------------------------------------------------- constants
Denom == 100          \* p-values are counted in 1/Denom
Alpha == 5            \* 0.05, the significance threshold
TopLabels == 5        \* .iloc[:5], the labels attached to a plot

NaN == Denom + 1      \* a p-value that is not a number
Raise == Denom + 2    \* a library call that raises

PVals == {0, 2, 5, 50, 100}
Samples == 1..NumSamples
Levels == 1..NumLevels
Attribute == "ATTRIBUTE_x"

\* ---------------------------------------------------------------- tables
EmptyFrame == [columns |-> <<>>, rows |-> <<>>]

Min(a, b) == IF a < b THEN a ELSE b

IsNaN(x) == x = NaN

\* df[name] as the list of the column's cells
Column(df, name) == [i \in DOMAIN df.rows |-> df.rows[i][name]]

HasColumn(df, name) == \E i \in DOMAIN df.columns : df.columns[i] = name

\* DataFrame.insert(loc, name, values): the column list gets name at
\* position loc (0-based), every row the cell values[i].
insert(df, loc, name, values) ==
    [columns |-> [i \in 1..(Len(df.columns) + 1) |->
                    IF i <= loc THEN df.columns[i]
                    ELSE IF i = loc + 1 THEN name
                    ELSE df.columns[i - 1]],
     rows |-> [i \in DOMAIN df.rows |-> (name :> values[i]) @@ df.rows[i]]]

\* the order of sort_values: ascending, NaN last
KeyLeq(a, b) == IsNaN(b) \/ (~IsNaN(a) /\ a <= b)

\* the orders in which the rows idx of rows can follow each other with
\* their keys ascending: any row of least key comes first; the rows of
\* NaN key are not sorted but appended in their order
RECURSIVE Orders(_, _, _)
Orders(rows, by, idx) ==
    IF idx = {} THEN {<<>>}
    ELSE UNION {{<<rows[i]>> \o rest : rest \in Orders(rows, by, idx \ {i})} :
                  i \in {k \in idx :
                           /\ \A j \in idx : KeyLeq(rows[k][by], rows[j][by])
                           /\ IsNaN(rows[k][by]) => \A j \in idx : k <= j}}

\* sort_values left out: the rows stay in their order
sort_values_Unsorted(df, by) == {df}

\* DataFrame.sort_values(by) with the default kind="quicksort": the rows
\* in ascending order of the key, NaN last. The default kind is not a
\* stable sort (only "mergesort" and "stable" are), so the order of rows
\* of equal key is not determined: every such order is an outcome. The
\* few rows of the model stand for a table of any size.
sort_values(df, by) ==
    {[df EXCEPT !.rows = r] : r \in Orders(df.rows, by, DOMAIN df.rows)}

\* pg.multicomp(pvals, method="bonf")[1]: each p times the number of
\* p-values that are not NaN, clipped at 1; NaN stays NaN.
multicomp_bonf(pvals) ==
    LET n == Cardinality({i \in DOMAIN pvals : ~IsNaN(pvals[i])})
    IN [i \in DOMAIN pvals |->
          IF IsNaN(pvals[i]) THEN NaN ELSE Min(pvals[i] * n, Denom)]

\* the threshold taken as <= 0.05
BelowAlpha_Inclusive(x) == ~IsNaN(x) /\ x <= Alpha

\* series < 0.05: a comparison with NaN is False
BelowAlpha(x) == ~IsNaN(x) /\ x < Alpha

\* df[df[name]]: the rows whose cell in the boolean column name is true,
\* in df's order
Filter(df, name) == [df EXCEPT !.rows = SelectSeq(df.rows, LAMBDA r : r[name])]

\* attribute.replace("ATTRIBUTE_", "")
StripAttribute(a) == IF a = "ATTRIBUTE_x" THEN "x" ELSE a

\* the outcomes of one library call: a p-value, or NaN or an exception
\* where the cells of the feature allow no test
LibOutcomes == PVals \cup {NaN, Raise}

\* the outcomes where the groups allow no test for any feature
Degenerate == {NaN, Raise}

\* the sizes of the groups of the samples in rows
GroupsOf(md_, rows) == {md_[s] : s \in rows}

\* pg.anova and pg.pairwise_tukey over the samples in rows: an F test
\* needs two groups and a sample more than groups
anova_outcomes(md_, rows) ==
    IF Cardinality(GroupsOf(md_, rows)) >= 2
       /\ Cardinality(rows) > Cardinality(GroupsOf(md_, rows))
    THEN LibOutcomes ELSE Degenerate

\* pg.ttest(x, y): a t-test needs two values in x; a single value in y
\* makes it a one-sample test of x
ttest_outcomes(x, y) ==
    IF Cardinality(x) >= 2 /\ Cardinality(y) >= 1 THEN LibOutcomes ELSE Degenerate

AnyRaise(lib) == \E i \in DOMAIN lib : lib[i] = Raise

Raised == [err |-> "Exception", frame |-> EmptyFrame]

Returned(frames) == {[err |-> "none", frame |-> f] : f \in frames}

\* ----------------------------------------------------------------- ANOVA
\* gen_anova_data: one (col, p, F) per column, in column order; lib[i] is
\* what pg.anova gives for column i. No call is guarded: an exception
\* leaves the generator.
gen_anova_data(df, columns, groups_col, lib) ==
    [i \in DOMAIN columns |-> [metabolite |-> columns[i], p |-> lib[i]]]

add_bonferroni_to_anova(df) ==
    LET d1 == IF ~HasColumn(df, "p_bonferroni")
              THEN insert(df, 2, "p_bonferroni", multicomp_bonf(Column(df, "p")))
              ELSE df
        d2 == IF ~HasColumn(d1, "significant")
              THEN insert(d1, 3, "significant",
                          [i \in DOMAIN d1.rows |->
                              BelowAlpha(d1.rows[i].p_bonferroni)])
              ELSE d1
    IN sort_values(d2, "p")

\* anova(df, attribute), reading st.session_state.md as md_: the set of
\* its possible outcomes (the tie order of the sort is not determined).
anova(df, md_, attribute, lib) ==
    IF AnyRaise(lib) THEN {Raised}
    ELSE Returned(add_bonferroni_to_anova(
             [columns |-> <<"metabolite", "p", "F">>,
              rows |-> gen_anova_data(df, df.columns, attribute, lib)]))

\* ----------------------------------------------------------------- Tukey
\* the ascending list of a set of levels
RECURSIVE SortedLevels(_)
SortedLevels(S) ==
    IF S = {} THEN <<>>
    ELSE LET m == CHOOSE x \in S : \A y \in S : x <= y
         IN <<m>> \o SortedLevels(S \ {m})

\* the contrasts of pg.pairwise_tukey: the pairs of the levels present in
\* the data, levels ascending, in the order of itertools.combinations
RECURSIVE Combinations(_)
Combinations(ls) ==
    IF Len(ls) < 2 THEN <<>>
    ELSE [i \in 1..(Len(ls) - 1) |-> [A |-> ls[1], B |-> ls[i + 1]]]
         \o Combinations(Tail(ls))

pairwise_tukey(rows, md_) == Combinations(SortedLevels(GroupsOf(md_, rows)))

\* gen_pairwise_tukey: per metabolite row 0 of pg.pairwise_tukey over the
\* samples in rows; lib[i] is the p-tukey of that row.
gen_pairwise_tukey(rows, md_, metabolites, attribute, lib) ==
    [i \in DOMAIN metabolites |->
        [stats_metabolite |-> metabolites[i],
         stats_p |-> lib[i],
         attribute |-> StripAttribute(attribute),
         A |-> pairwise_tukey(rows, md_)[1].A,
         B |-> pairwise_tukey(rows, md_)[1].B]]

\* the correction computed row by row, each row a batch of its own
add_bonferroni_to_tukeys_PerRow(tk) ==
    LET t1 == insert(tk, 3, "stats_p_bonferroni",
                     [i \in DOMAIN tk.rows |-> multicomp_bonf(<<tk.rows[i].stats_p>>)[1]])
        t2 == insert(t1, 4, "stats_significant",
                     [i \in DOMAIN t1.rows |->
                         BelowAlpha(t1.rows[i].stats_p_bonferroni)])
    IN sort_values(t2, "stats_p")

add_bonferroni_to_tukeys(tk) ==
    IF ~HasColumn(tk, "stats_p_bonferroni")
    THEN LET t1 == insert(tk, 3, "stats_p_bonferroni",
                          multicomp_bonf(Column(tk, "stats_p")))
             t2 == insert(t1, 4, "stats_significant",
                          [i \in DOMAIN t1.rows |->
                              BelowAlpha(t1.rows[i].stats_p_bonferroni)])
         IN sort_values(t2, "stats_p")
    ELSE {tk}

\* the samples not restricted to the requested levels
isin_AllSamples(md_, elements) == DOMAIN md_

\* data[data[attribute].isin(elements)]: the sample rows kept
isin(md_, elements) == {s \in DOMAIN md_ : md_[s] \in elements}

\* tukey(df, attribute, elements), reading st.session_state.data as data_
\* and st.session_state.md as md_; df is a table returned by anova.
tukey(df, data_, md_, attribute, elements, lib) ==
    LET significant_metabolites == Column(Filter(df, "significant"), "metabolite")
        rows == isin(md_, elements)
    IN IF \/ AnyRaise(lib)
          \/ \E i \in DOMAIN significant_metabolites :
                ~\E j \in DOMAIN data_.columns :
                    data_.columns[j] = significant_metabolites[i]
          \/ /\ Len(significant_metabolites) > 0
             /\ Len(pairwise_tukey(rows, md_)) = 0
       THEN {Raised}
       ELSE Returned(add_bonferroni_to_tukeys(
                [columns |-> <<"stats_metabolite", "diff", "stats_p", "attribute",
                               "A", "B", "mean(A)", "mean(B)">>,
                 rows |-> gen_pairwise_tukey(rows, md_, significant_metabolites,
                                             attribute, lib)]))

\* ---------------------------------------------------------------- t-test
\* df[col][df[ttest_attribute] == group]: the samples of a group
GroupRows(md_, group) == {s \in DOMAIN md_ : md_[s] = group}

\* pg.ttest(x, y, paired): with paired and x.size # y.size pingouin warns
\* and switches to the unpaired test; out is the p-val it then computes.
pg_ttest(x, y, paired, out) ==
    [pval |-> out, paired |-> paired /\ Cardinality(x) = Cardinality(y)]

\* gen_ttest_data(ttest_attribute, target_groups, paired), reading
\* st.session_state.data as data_ and st.session_state.md as md_.
gen_ttest_data(data_, md_, ttest_attribute, target_groups, paired, lib) ==
    LET group1 == GroupRows(md_, target_groups[1])
        group2 == GroupRows(md_, target_groups[2])
        ttest == [columns |-> <<"T", "dof", "alternative", "p-val", "CI95%",
                                "cohen-d", "BF10", "power">>,
                  rows |-> [i \in DOMAIN data_.columns |->
                      ("metabolite" :> data_.columns[i])
                      @@ ("p-val" :> pg_ttest(group1, group2, paired, lib[i]).pval)
                      @@ ("paired" :> pg_ttest(group1, group2, paired, lib[i]).paired)]]
        t1 == insert(ttest, 8, "p-bonf", multicomp_bonf(Column(ttest, "p-val")))
        t2 == insert(t1, 9, "significance",
                     [i \in DOMAIN t1.rows |-> BelowAlpha(t1.rows[i]["p-bonf"])])
        t3 == insert(t2, 10, "st.session_state.ttest_attribute",
                     [i \in DOMAIN t2.rows |-> StripAttribute(ttest_attribute)])
        t4 == insert(t3, 11, "A", [i \in DOMAIN t3.rows |-> target_groups[1]])
        t5 == insert(t4, 12, "B", [i \in DOMAIN t4.rows |-> target_groups[2]])
    IN IF AnyRaise(lib) \/ Len(data_.columns) = 0 THEN {Raised}
       ELSE Returned(sort_values(t5, "p-bonf"))

\* ------------------------------------------------------------------ state
VARIABLES
    data_preparation_done,  \* st.session_state["data_preparation_done"]
    md,                     \* st.session_state["md"]: sample -> level of the attribute
    data,                   \* st.session_state["data"]: [cells, columns]
    cache,                  \* the st.cache_data entries: key -> value
    ret,                    \* the last return of a memoized function
    ncalls,                 \* memoized calls so far
    lastSubmit,             \* the tables the last Submit wrote
    writes,                 \* Submit writes since the last Redo
    op,                     \* the last statistics function run
    call,                   \* its arguments and the library's results
    err,                    \* "none", or the exception it ended with
    res,                    \* the table it returned
    prev                    \* the table before a second correction

vars == <<data_preparation_done, md, data, cache, ret, ncalls, lastSubmit,
          writes, op, call, err, res, prev>>

session == <<data_preparation_done, md, data, cache, ret, ncalls, lastSubmit, writes>>

stats == <<op, call, err, res, prev>>

\* pd.DataFrame()
EmptyMd == <<>>
EmptyData == [cells |-> 0, columns |-> <<>>]

NoCall == [fn |-> "none"]
NoRet == [fn |-> "none", hit |-> FALSE]

\* the cleaned tables: md gives each sample its level, data has one
\* column per feature. The cells of a sample are not represented, so the
\* samples are numbered in the order of their levels.
MdTables == {m \in [Samples -> Levels] : \A s \in Samples \ {NumSamples} : m[s] <= m[s + 1]}
DataTables == {[cells |-> 1, columns |-> [i \in 1..k |-> i]] : k \in 1..MaxFeatures}

\* the levels of the attribute in md, and the selections a page offers:
\* two of them as a list, or as the set of a multiselect
LevelsOf(md_) == {md_[s] : s \in DOMAIN md_}
LevelPairs(md_) == {<<a, b>> \in LevelsOf(md_) \X LevelsOf(md_) : a # b}
LevelSets(md_) == {e \in SUBSET LevelsOf(md_) : Cardinality(e) = 2}

\* the calls of a batch that raised
Failed(lib) == {i \in DOMAIN lib : lib[i] = Raise}

\* ------------------------------------------------- the statistics pipeline
InitStats ==
    /\ data_preparation_done = TRUE
    /\ md \in MdTables
    /\ data \in DataTables
    /\ cache = <<>>
    /\ ret = NoRet
    /\ ncalls = 0
    /\ lastSubmit = <<md, data>>
    /\ writes = 1
    /\ op = "start"
    /\ call = NoCall
    /\ err = "none"
    /\ res = EmptyFrame
    /\ prev = EmptyFrame

RunAnova ==
    /\ op = "start"
    /\ \E lib \in [DOMAIN data.columns -> anova_outcomes(md, DOMAIN md)] :
       \E out \in anova(data, md, Attribute, lib) :
          /\ op' = "anova"
          /\ call' = [fn |-> "anova", failed |-> Failed(lib), n |-> Len(lib)]
          /\ err' = out.err
          /\ res' = out.frame
    /\ UNCHANGED <<session, prev>>

RunTukey ==
    /\ op = "anova"
    /\ err = "none"
    /\ \E elements \in LevelSets(md) :
       \E lib \in [1..Len(Filter(res, "significant").rows) ->
                      anova_outcomes(md, isin(md, elements))] :
       \E out \in tukey(res, data, md, Attribute, elements, lib) :
          /\ op' = "tukey"
          /\ call' = [fn |-> "tukey", failed |-> Failed(lib), n |-> Len(lib),
                      elements |-> elements]
          /\ err' = out.err
          /\ res' = out.frame
    /\ UNCHANGED <<session, prev>>

RunTtest ==
    /\ op = "start"
    /\ \E target_groups \in LevelPairs(md), paired \in BOOLEAN :
       \E lib \in [DOMAIN data.columns ->
                      ttest_outcomes(GroupRows(md, target_groups[1]),
                                     GroupRows(md, target_groups[2]))] :
       \E out \in gen_ttest_data(data, md, Attribute, target_groups, paired, lib) :
          /\ op' = "ttest"
          /\ call' = [fn |-> "ttest", failed |-> Failed(lib), n |-> Len(lib),
                      target_groups |-> target_groups, paired |-> paired]
          /\ err' = out.err
          /\ res' = out.frame
    /\ UNCHANGED <<session, prev>>

\* add_bonferroni_to_anova on a table that anova returned
CorrectAnovaAgain ==
    /\ op = "anova"
    /\ err = "none"
    /\ \E again \in add_bonferroni_to_anova(res) :
          /\ op' = "anova_again"
          /\ prev' = res
          /\ res' = again
    /\ UNCHANGED <<session, call, err>>

\* add_bonferroni_to_tukeys on a table that tukey returned
CorrectTukeyAgain ==
    /\ op = "tukey"
    /\ err = "none"
    /\ \E again \in add_bonferroni_to_tukeys(res) :
          /\ op' = "tukey_again"
          /\ prev' = res
          /\ res' = again
    /\ UNCHANGED <<session, call, err>>

NextStats ==
    \/ RunAnova
    \/ RunTukey
    \/ RunTtest
    \/ CorrectAnovaAgain
    \/ CorrectTukeyAgain

Spec == InitStats /\ [][NextStats]_vars

\* ------------------------------------------------ the Data Preparation page
\* the tables the page holds when Submit is pressed: ft has one row per
\* feature, md gives each sample its level; either may still be empty
EmptyFt == [cells |-> 0, features |-> <<>>]
UploadFt == {[cells |-> c, features |-> [i \in 1..MaxFeatures |-> i]] : c \in 1..NumUploads}
UploadMd == {[s \in Samples |-> IF s <= u THEN 1 ELSE 2] : u \in 1..NumUploads}

\* transpose_and_scale(ft, md): (md, data), data with the samples as rows
\* and the features of ft as columns
transpose_and_scale(ft, md_) ==
    <<md_, [cells |-> ft.cells, columns |-> ft.features]>>

InitSession ==
    /\ data_preparation_done = FALSE
    /\ md = EmptyMd
    /\ data = EmptyData
    /\ cache = <<>>
    /\ ret = NoRet
    /\ ncalls = 0
    /\ lastSubmit = <<EmptyMd, EmptyData>>
    /\ writes = 0
    /\ op = "start"
    /\ call = NoCall
    /\ err = "none"
    /\ res = EmptyFrame
    /\ prev = EmptyFrame

\* the else branch of the page: the upload widgets and the Submit button
SubmitEnabled == ~data_preparation_done

\* "Submit Data for Statistics!"
Submit ==
    /\ SubmitEnabled
    /\ \E ft \in UploadFt \cup {EmptyFt}, md_ \in UploadMd \cup {EmptyMd} :
          /\ ft # EmptyFt
          /\ md_ # EmptyMd
          /\ md' = transpose_and_scale(ft, md_)[1]
          /\ data' = transpose_and_scale(ft, md_)[2]
          /\ lastSubmit' = transpose_and_scale(ft, md_)
    /\ data_preparation_done' = TRUE
    /\ writes' = writes + 1
    /\ UNCHANGED <<cache, ret, ncalls, stats>>

\* Redo resetting the flag and leaving the tables
Redo_KeepsTables ==
    /\ data_preparation_done
    /\ data_preparation_done' = FALSE
    /\ writes' = 0
    /\ UNCHANGED <<md, data, cache, ret, ncalls, lastSubmit, stats>>

\* "Re-do the data preparation step now."
Redo ==
    /\ data_preparation_done
    /\ md' = EmptyMd
    /\ data' = EmptyData
    /\ data_preparation_done' = FALSE
    /\ writes' = 0
    /\ UNCHANGED <<cache, ret, ncalls, lastSubmit, stats>>

\* ------------------------------------------------------------ st.cache_data
\* A memoized function is keyed by its name and its arguments. Its value
\* is represented by what it was computed from: the arguments and the
\* session tables the body read.
cache_key(fn, args) == <<fn>> \o args

\* @st.cache_data: the stored value for the key if there is one, else the
\* value computed now, which is stored
cache_data(key, computed) ==
    IF key \in DOMAIN cache
    THEN [hit |-> TRUE, value |-> cache[key], stored |-> cache]
    ELSE [hit |-> FALSE, value |-> computed, stored |-> (key :> computed) @@ cache]

Memoized(fn, key, computed) ==
    /\ ncalls < MaxCalls
    /\ ncalls' = ncalls + 1
    /\ cache' = cache_data(key, computed).stored
    /\ ret' = [fn |-> fn, hit |-> cache_data(key, computed).hit,
               value |-> cache_data(key, computed).value, fresh |-> computed]
    /\ UNCHANGED <<data_preparation_done, md, data, lastSubmit, writes, stats>>

\* anova(df, attribute) with df the cleaned data table: reads md
anova_key(df, attribute) == cache_key("anova", <<df, attribute>>)
anova_value(df, attribute) == [fn |-> "anova", df |-> df, attribute |-> attribute, md |-> md]

CallAnova ==
    /\ data_preparation_done
    /\ Memoized("anova", anova_key(data, Attribute), anova_value(data, Attribute))

\* tukey(df, attribute, elements) with df the table anova returns for the
\* session's data: reads data and md
tukey_key(df, attribute, elements) == cache_key("tukey", <<df, attribute, elements>>)
tukey_value(df, attribute, elements) ==
    [fn |-> "tukey", df |-> df, attribute |-> attribute, elements |-> elements,
     data |-> data, md |-> md]

CallTukey ==
    /\ data_preparation_done
    /\ anova_key(data, Attribute) \in DOMAIN cache
    /\ \E elements \in LevelSets(md) :
          Memoized("tukey",
                   tukey_key(cache[anova_key(data, Attribute)], Attribute, elements),
                   tukey_value(cache[anova_key(data, Attribute)], Attribute, elements))

\* gen_ttest_data(ttest_attribute, target_groups, paired): reads data and md
ttest_key(ttest_attribute, target_groups, paired) ==
    cache_key("gen_ttest_data", <<ttest_attribute, target_groups, paired>>)
ttest_value(ttest_attribute, target_groups, paired) ==
    [fn |-> "gen_ttest_data", attribute |-> ttest_attribute,
     target_groups |-> target_groups, paired |-> paired, data |-> data, md |-> md]

CallTtest ==
    /\ data_preparation_done
    /\ \E target_groups \in LevelPairs(md), paired \in BOOLEAN :
          Memoized("gen_ttest_data",
                   ttest_key(Attribute, target_groups, paired),
                   ttest_value(Attribute, target_groups, paired))

NextSession ==
    \/ Submit
    \/ Redo
    \/ CallAnova
    \/ CallTukey
    \/ CallTtest

SpecSession == InitSession /\ [][NextSession]_vars

\* ------------------------------------------------------------------ plots
\* plot_ttest: one annotation per significant row, placed on rows 0..k-1
plot_ttest(df) ==
    [i \in 1..Len(Filter(df, "significance").rows) |-> df.rows[i].metabolite]

\* .iloc[:5] of a column
Head5(df, name) == [i \in 1..Min(TopLabels, Len(df.rows)) |-> df.rows[i][name]]

\* get_anova_plot: the significant series (its points) and the text given
\* to it, the i-th text being drawn at the i-th point
get_anova_plot(df) ==
    [points |-> Column(Filter(df, "significant"), "metabolite"),
     text |-> Head5(df, "metabolite")]

\* get_tukey_volcano_plot: likewise
get_tukey_volcano_plot(df) ==
    [points |-> Column(Filter(df, "stats_significant"), "stats_metabolite"),
     text |-> Head5(df, "stats_metabolite")]

\* ----------------------------------------------------------------- claims
Returns(fns) == op \in fns /\ err = "none"

IsAnova == Returns({"anova", "anova_again"})
IsTukey == Returns({"tukey", "tukey_again"})
IsTtest == Returns({"ttest"})

\* the raw p, the corrected p and the flag of a row of the table in res
RawP(r) == IF IsAnova THEN r.p ELSE IF IsTukey THEN r.stats_p ELSE r["p-val"]
CorrectedP(r) ==
    IF IsAnova THEN r.p_bonferroni
    ELSE IF IsTukey THEN r.stats_p_bonferroni ELSE r["p-bonf"]
Flag(r) ==
    IF IsAnova THEN r.significant
    ELSE IF IsTukey THEN r.stats_significant ELSE r.significance

HasResult == IsAnova \/ IsTukey \/ IsTtest
Rows == DOMAIN res.rows

\* C1: a memoized statistics function never returns a stale result: what
\* a call returns is what computing it from the current arguments and the
\* current session tables gives.
C1_NeverStale == ret.fn # "none" => ret.value = ret.fresh

\* C2: the cleaned tables are written once per cleanup cycle: while
\* data_preparation_done holds, md and data are the tables of the last
\* Submit, written once, and Submit is disabled; while it does not hold,
\* both are empty and Redo is disabled.
C2_WrittenOncePerCycle ==
    /\ data_preparation_done =>
          /\ <<md, data>> = lastSubmit
          /\ md # EmptyMd /\ data # EmptyData
          /\ writes = 1
          /\ ~ENABLED Submit
    /\ ~data_preparation_done =>
          /\ md = EmptyMd /\ data = EmptyData
          /\ writes = 0
          /\ ~ENABLED Redo

\* a second cleanup cycle with other tables than the first, after
\* statistics were computed in the first
C2_Witness ==
    /\ data_preparation_done
    /\ writes = 1
    /\ \E k \in DOMAIN cache : cache[k].md # md

\* C3: for a batch of raw p-values in [0,1], each corrected p-value is
\* min(1, p * n), n the number of tests of the batch: the columns of the
\* data table for anova and gen_ttest_data, the ANOVA-significant features
\* for tukey.
C3_Bonferroni ==
    (HasResult /\ \A i \in Rows : RawP(res.rows[i]) \in 0..Denom) =>
       /\ Len(res.rows) = call.n
       /\ ~IsTukey => call.n = Len(data.columns)
       /\ \A i \in Rows :
             CorrectedP(res.rows[i]) =
                IF RawP(res.rows[i]) * call.n < Denom
                THEN RawP(res.rows[i]) * call.n ELSE Denom

\* tukey over a reduced set: fewer features than anova tested, and a
\* corrected p-value that the full batch size would have made larger
C3_Witness ==
    /\ IsTukey
    /\ 0 < Len(res.rows) /\ Len(res.rows) < Len(data.columns)
    /\ \E i \in Rows :
          /\ res.rows[i].stats_p = 50
          /\ res.rows[i].stats_p_bonferroni = 50

\* C4: the significance flag of a row is true exactly when its corrected
\* p-value is strictly below 0.05.
C4_StrictThreshold ==
    HasResult =>
       \A i \in Rows :
          Flag(res.rows[i]) <=>
             (CorrectedP(res.rows[i]) # NaN /\ CorrectedP(res.rows[i]) < Alpha)

\* a corrected p-value of exactly 0.05, flagged false
C4_Witness ==
    /\ HasResult
    /\ \E i \in Rows : CorrectedP(res.rows[i]) = Alpha /\ ~Flag(res.rows[i])

\* C5: every row tukey returns compares exactly the two requested levels.
C5_RequestedPair ==
    IsTukey => \A i \in Rows : {res.rows[i].A, res.rows[i].B} = call.elements

\* an attribute with three levels, and a requested pair that is not the
\* first pair of all its levels
C5_Witness ==
    /\ IsTukey
    /\ Len(res.rows) > 0
    /\ \E i \in Rows : res.rows[i].stats_p \in PVals
    /\ Cardinality(LevelsOf(md)) > 2
    /\ \E l \in LevelsOf(md) : \A e \in call.elements : l < e

\* C6: every result table is ascending in the raw p-value (rows of equal
\* raw p-value in their input order). The formula states the order by raw
\* p-value, which the rule for equal values rests on.
C6_SortedByRawP ==
    HasResult =>
       \A i, j \in Rows :
          (i < j /\ RawP(res.rows[i]) # NaN /\ RawP(res.rows[j]) # NaN) =>
             RawP(res.rows[i]) <= RawP(res.rows[j])

\* C7: gen_ttest_data with paired = true and target groups of different
\* sizes fails with UnequalGroupSizeError and returns no table; otherwise,
\* when every test of the batch can be computed, it returns a table.
GroupSize(g) == Cardinality({s \in DOMAIN md : md[s] = g})

C7_UnequalGroupSize ==
    (op = "ttest" /\ call.failed = {}) =>
       IF call.paired /\ GroupSize(call.target_groups[1]) # GroupSize(call.target_groups[2])
       THEN err = "UnequalGroupSizeError" /\ res = EmptyFrame
       ELSE err = "none" /\ Len(res.rows) = Len(data.columns)

\* C8: when the test of a feature cannot be computed, anova and
\* gen_ttest_data still return a table with a row for every feature, the
\* row of the failing feature marked as not computed (a NaN p-value).
C8_PartialResults ==
    (op \in {"anova", "ttest"} /\ call.failed # {}) =>
       /\ err = "none"
       /\ \A c \in DOMAIN data.columns :
             \E i \in Rows :
                /\ res.rows[i].metabolite = data.columns[c]
                /\ c \in call.failed => RawP(res.rows[i]) = NaN

\* C9: correcting a corrected table again changes nothing: the columns,
\* the values and the row order are those of the first correction.
C9_Idempotent == op \in {"anova_again", "tukey_again"} => res = prev

\* C10: the significant rows of a result table are a prefix of it, so the
\* annotations of plot_ttest name the significant features and the
\* labels of the ANOVA and Tukey plots are those of the first significant
\* points.
C10_SignificantPrefix ==
    HasResult =>
       /\ \A i, j \in Rows : (i < j /\ Flag(res.rows[j])) => Flag(res.rows[i])
       /\ IsTtest =>
             plot_ttest(res) = Column(Filter(res, "significance"), "metabolite")
       /\ IsAnova =>
             \A i \in DOMAIN get_anova_plot(res).points \cap DOMAIN get_anova_plot(res).text :
                get_anova_plot(res).text[i] = get_anova_plot(res).points[i]
       /\ IsTukey =>
             \A i \in DOMAIN get_tukey_volcano_plot(res).points
                        \cap DOMAIN get_tukey_volcano_plot(res).text :
                get_tukey_volcano_plot(res).text[i] = get_tukey_volcano_plot(res).points[i]

\* a t-test table with a significant row, a row that is not, and the
\* significant feature second in the column order
C10_Witness ==
    /\ IsTtest
    /\ Len(res.rows) > 1
    /\ Flag(res.rows[1]) /\ ~Flag(res.rows[Len(res.rows)])
    /\ res.rows[1].metabolite > res.rows[Len(res.rows)].metabolite

====
